---- MODULE Spec2Model ----
(***************************************************************************)
(* Model of .github/scripts/claude_review.py: the review-staleness oracle  *)
(* (should_review_pr, should_review_issue), the fetches it relies on, the  *)
(* orchestrator loop of main() and the design-doc selector (select_docs).  *)
(*                                                                         *)
(* The GitHub side is modelled as the data the script reads: per item an   *)
(* ordered comment list, an ordered commit list and a changed-file list.   *)
(* Instants are integers; a comment body is reduced to the one thing the   *)
(* script inspects, whether REVIEW_MARKER occurs in it.                    *)
(***************************************************************************)
EXTENDS Integers, Sequences, FiniteSets, TLC

VARIABLES
    comments,        \* item number -> its comments, in the order the API lists them
    commits,         \* PR number -> commit dates, in the order the API lists them
    files,           \* PR number -> changed file names
    labeled,         \* item number -> open and carrying one of REVIEW_LABELS
    now,             \* the clock that stamps comments and commits
    FORCE_REVIEW,    \* environment: FORCE_REVIEW == "true"
    REVIEW_TARGETS,  \* environment: the raw REVIEW_TARGETS text
    REVIEW_MODE,     \* environment: "scan" or "explicit"; main() reads it into
                     \* `mode` and never uses it
    pc,              \* invocation -> where it stands in main()
    phase,           \* invocation -> "explicit", "scan_prs" or "scan_issues"
    targets,         \* invocation -> the list the current for-loop iterates
    idx,             \* invocation -> position of the loop in that list
    reviewed,        \* invocation -> main()'s counter
    reported,        \* invocation -> the count printed by the last line, or None
    posted,          \* history: invocation -> item -> comments it has posted
    seen,            \* history: invocation -> items it has asked the oracle about
    hadMarker,       \* history: item -> carried a marker when invocation 1 began
    changed,         \* history: item -> touched by someone else since then
    edits,           \* history: number of changes made by others so far
    failed_on,       \* history: invocation -> the request that raised, if any
    call,            \* the last oracle call made and what it returned
    text,            \* select_docs: the text searched, a sequence of characters
    on_disk,         \* the design-doc paths for which Path.exists() holds
    selected,        \* what the last select_docs(text) returned
    searched,        \* the last keyword tried against the text, and the outcome
    corpus,          \* design-doc path -> the file's text, as its lines
    loaded           \* what the last load_docs(paths) returned, part by part

\* ---------------------------------------------------------------------------
\* Bounds and program constants
\* ---------------------------------------------------------------------------

\* "per_page": "100" in every list fetch.
PerPage == 100

MaxTime == 2        \* instants are 0..MaxTime
MaxComments == 2    \* comments drawn freely after the optional padding
MaxCommits == 1     \* commits drawn freely after the optional padding
MaxRuns == 2        \* invocations of main()
MaxEdits == 1       \* changes made by others (commits, comments, edits) in a behaviour
MaxWords == 2       \* words in a text handed to select_docs

PRs == {1}
Issues == {2}
Targets == PRs \cup Issues

\* A commit for which neither committer.date nor author.date is present.
NoDate == -1
\* Python's None, for an optional instant / an optional position in a list.
None == -1

Min(a, b) == IF a < b THEN a ELSE b

SeqUpTo(S, n) == UNION {[1..k -> S] : k \in 0..n}
Pad(k, x) == [i \in 1..k |-> x]

\* ---------------------------------------------------------------------------
\* GitHub API helpers
\* ---------------------------------------------------------------------------

\* gh_get(path, {"per_page": "100"}): one request, no "page" parameter, so the
\* response is the first page of the collection.
gh_get(collection) == SubSeq(collection, 1, Min(Len(collection), PerPage))

get_pr_files(pr_number) == gh_get(files[pr_number])

get_issue_comments(issue_number) == gh_get(comments[issue_number])

get_pr_comments(pr_number) == get_issue_comments(pr_number)

\* for c in reversed(comments): if REVIEW_MARKER in c.body: return c
\* The first hit of a scan from the end is the hit at the greatest position.
\* The comment is returned as its position in the list, None when the scan
\* finds nothing.
get_last_claude_review(cs) ==
    LET hits == {i \in 1..Len(cs) : cs[i].marker}
    IN  IF hits = {} THEN None
        ELSE CHOOSE i \in hits : \A j \in hits : j <= i

\* times = [date of c for c in commits if date]; max(times) if times else None
get_pr_latest_commit_time(pr_number) ==
    LET cs == gh_get(commits[pr_number])
        times == {cs[i] : i \in {j \in 1..Len(cs) : cs[j] # NoDate}}
    IN  IF cs = <<>> \/ times = {} THEN None
        ELSE CHOOSE t \in times : \A u \in times : u <= t

\* ---------------------------------------------------------------------------
\* Review orchestration: the staleness oracle
\* ---------------------------------------------------------------------------

\* Bug variant: the never-reviewed rule is tried before the empty-diff rule.
should_review_pr_never_first(pr_number, force) ==
    IF force THEN TRUE
    ELSE LET cs == get_pr_comments(pr_number)
             last_review == get_last_claude_review(cs)
         IN  IF last_review = None THEN TRUE
             ELSE IF get_pr_files(pr_number) = <<>> THEN FALSE
             ELSE LET review_time == cs[last_review].updated_at
                      latest_commit == get_pr_latest_commit_time(pr_number)
                  IN  IF latest_commit = None THEN FALSE
                      ELSE latest_commit > review_time

should_review_pr(pr_number, force) ==
    IF force THEN TRUE
    ELSE IF get_pr_files(pr_number) = <<>> THEN FALSE
    ELSE LET cs == get_pr_comments(pr_number)
             last_review == get_last_claude_review(cs)
         IN  IF last_review = None THEN TRUE
             ELSE LET review_time == cs[last_review].updated_at
                      latest_commit == get_pr_latest_commit_time(pr_number)
                  IN  IF latest_commit = None THEN FALSE
                      ELSE latest_commit > review_time

\* Bug variant: the force flag is not consulted.
should_review_issue_no_force(issue_number, force) ==
    get_last_claude_review(get_issue_comments(issue_number)) = None

should_review_issue(issue_number, force) ==
    IF force THEN TRUE
    ELSE get_last_claude_review(get_issue_comments(issue_number)) = None

\* ---------------------------------------------------------------------------
\* The oracle as a function of its inputs: every bounded comment history,
\* commit timeline and file list, then the calls.
\* ---------------------------------------------------------------------------

server == <<comments, commits, files, labeled, now>>
env == <<FORCE_REVIEW, REVIEW_TARGETS, REVIEW_MODE>>
run == <<pc, phase, targets, idx, reviewed, reported>>
history == <<posted, seen, hadMarker, changed, edits, failed_on>>
docs == <<text, on_disk, selected, searched, corpus, loaded>>
vars == <<server, env, run, history, call, docs>>

Runs == 1..MaxRuns

Plain == [marker |-> FALSE, updated_at |-> 0]
CommentVals == [marker : BOOLEAN, updated_at : 0..MaxTime]
Paddings == {0, PerPage - 1}

CommentInputs ==
    {Pad(k, Plain) \o tail : k \in Paddings, tail \in SeqUpTo(CommentVals, MaxComments)}
CommitInputs ==
    {Pad(k, 0) \o tail : k \in {0, PerPage},
                         tail \in SeqUpTo((0..MaxTime) \cup {NoDate}, MaxCommits)}
FileInputs == {Pad(k, "src/lib.rs") : k \in {0, 1}}

NoCall == [fn |-> "none", n |-> 0, force |-> FALSE, verdict |-> FALSE, found |-> None]

NoRun ==
    /\ pc = [p \in Runs |-> "idle"]
    /\ phase = [p \in Runs |-> "explicit"]
    /\ targets = [p \in Runs |-> <<>>]
    /\ idx = [p \in Runs |-> 1]
    /\ reviewed = [p \in Runs |-> 0]
    /\ reported = [p \in Runs |-> None]
    /\ posted = [p \in Runs |-> [t \in Targets |-> 0]]
    /\ seen = [p \in Runs |-> {}]
    /\ hadMarker = [t \in Targets |-> FALSE]
    /\ changed = [t \in Targets |-> FALSE]
    /\ edits = 0
    /\ failed_on = [p \in Runs |-> <<>>]

NoSearch == [kw |-> <<>>, hit |-> FALSE]

NoDocs ==
    /\ text = <<>>
    /\ on_disk = {}
    /\ selected = <<>>
    /\ searched = NoSearch
    /\ corpus = <<>>
    /\ loaded = <<>>

InitOracle ==
    /\ NoRun
    /\ NoDocs
    /\ labeled = [t \in Targets |-> FALSE]
    /\ now = 0
    /\ FORCE_REVIEW = FALSE
    /\ REVIEW_TARGETS = [well_formed |-> TRUE, items |-> <<>>]
    /\ REVIEW_MODE = "scan"
    /\ \E s \in Targets :
         /\ comments \in {c \in [Targets -> CommentInputs] :
                            \A t \in Targets \ {s} : c[t] = <<>>}
         /\ commits \in {c \in [PRs -> CommitInputs] :
                            \A t \in PRs \ {s} : c[t] = <<>>}
         /\ files \in {f \in [PRs -> FileInputs] :
                            \A t \in PRs \ {s} : f[t] = <<>>}
    /\ call = NoCall

CallShouldReviewPr ==
    \E n \in PRs, force \in BOOLEAN :
        /\ call' = [fn |-> "should_review_pr", n |-> n, force |-> force,
                    verdict |-> should_review_pr(n, force), found |-> None]
        /\ UNCHANGED <<server, env, run, history, docs>>

CallShouldReviewIssue ==
    \E n \in Issues, force \in BOOLEAN :
        /\ call' = [fn |-> "should_review_issue", n |-> n, force |-> force,
                    verdict |-> should_review_issue(n, force), found |-> None]
        /\ UNCHANGED <<server, env, run, history, docs>>

CallGetLastClaudeReview ==
    \E n \in Targets :
        /\ call' = [fn |-> "get_last_claude_review", n |-> n, force |-> FALSE,
                    verdict |-> FALSE,
                    found |-> get_last_claude_review(get_issue_comments(n))]
        /\ UNCHANGED <<server, env, run, history, docs>>


NextOracle == CallShouldReviewPr \/ CallShouldReviewIssue \/ CallGetLastClaudeReview

SpecOracle == InitOracle /\ [][NextOracle]_vars

\* ---------------------------------------------------------------------------
\* Design doc loading: select_docs
\* ---------------------------------------------------------------------------

ALWAYS_INCLUDE_DOCS ==
    << "design_docs/TERMINOLOGY.md",
       "design_docs/graphshell_docs/implementation_strategy/IMPLEMENTATION_ROADMAP.md",
       "design_docs/graphshell_docs/implementation_strategy/2026-02-24_immediate_priorities.md" >>

KEYWORD_DOC_MAP ==
    <<
       [keywords |-> << <<"p", "h", "y", "s", "i", "c", "s">>,
                        <<"r", "e", "h", "e", "a", "t">>,
                        <<"s", "i", "m", "u", "l", "a", "t", "i", "o", "n">>,
                        <<"f", "o", "r", "c", "e">> >>,
        doc |-> "design_docs/graphshell_docs/implementation_strategy/2026-02-24_physics_engine_extensibility_plan.md"],
       [keywords |-> << <<"r", "e", "g", "i", "s", "t", "r", "y">>,
                        <<"l", "e", "n", "s">>,
                        <<"l", "a", "y", "o", "u", "t">>,
                        <<"t", "h", "e", "m", "e">>,
                        <<"c", "a", "n", "v", "a", "s">> >>,
        doc |-> "design_docs/graphshell_docs/implementation_strategy/2026-02-22_registry_layer_plan.md"],
       [keywords |-> << <<"t", "r", "a", "v", "e", "r", "s", "a", "l">>,
                        <<"h", "i", "s", "t", "o", "r", "y">>,
                        <<"w", "e", "b", "v", "i", "e", "w">>,
                        <<"u", "r", "l">> >>,
        doc |-> "design_docs/graphshell_docs/implementation_strategy/2026-02-20_edge_traversal_impl_plan.md"],
       [keywords |-> << <<"r", "e", "n", "d", "e", "r">>,
                        <<"r", "a", "d", "i", "a", "l">>,
                        <<"p", "a", "l", "e", "t", "t", "e">>,
                        <<"c", "o", "m", "m", "a", "n", "d">>,
                        <<"a", "c", "t", "i", "o", "n">> >>,
        doc |-> "design_docs/graphshell_docs/implementation_strategy/2026-02-23_graph_interaction_consistency_plan.md"],
       [keywords |-> << <<"d", "i", "a", "g", "n", "o", "s", "t", "i", "c">>,
                        <<"c", "h", "a", "n", "n", "e", "l">>,
                        <<"s", "e", "v", "e", "r", "i", "t", "y">>,
                        <<"o", "b", "s", "e", "r", "v", "a", "b", "i", "l", "i", "t", "y">> >>,
        doc |-> "design_docs/graphshell_docs/research/2026-02-24_diagnostics_research.md"],
       [keywords |-> << <<"p", "a", "n", "e">>,
                        <<"t", "i", "l", "e">>,
                        <<"w", "o", "r", "k", "b", "e", "n", "c", "h">>,
                        <<"s", "p", "l", "i", "t">>,
                        <<"t", "a", "b">> >>,
        doc |-> "design_docs/graphshell_docs/implementation_strategy/2026-02-22_workbench_tab_semantics_overlay_and_promotion_plan.md"],
       [keywords |-> << <<"g", "r", "a", "p", "h">>,
                        <<"n", "o", "d", "e">>,
                        <<"e", "d", "g", "e">>,
                        <<"l", "a", "s", "s", "o">>,
                        <<"s", "e", "l", "e", "c", "t">>,
                        <<"m", "u", "l", "t", "i">> >>,
        doc |-> "design_docs/graphshell_docs/research/2026-02-18_graph_ux_research_report.md"],
       [keywords |-> << <<"m", "u", "l", "t", "i", ".", "v", "i", "e", "w">>,
                        <<"v", "i", "e", "w", ".", "s", "t", "a", "t", "e">>,
                        <<"v", "i", "e", "w", ".", "i", "d">>,
                        <<"g", "r", "a", "p", "h", "v", "i", "e", "w", "i", "d">> >>,
        doc |-> "design_docs/graphshell_docs/implementation_strategy/2026-02-22_multi_graph_pane_plan.md"],
       [keywords |-> << <<"e", "m", "b", "e", "d", "d", "e", "r">>,
                        <<"w", "r", "y">>,
                        <<"v", "e", "r", "s", "o">>,
                        <<"w", "e", "b", "v", "i", "e", "w">> >>,
        doc |-> "design_docs/graphshell_docs/implementation_strategy/2026-02-23_wry_integration_strategy.md"],
       [keywords |-> << <<"b", "a", "d", "g", "e">>,
                        <<"t", "a", "g">>,
                        <<"u", "d", "c">>,
                        <<"s", "e", "m", "a", "n", "t", "i", "c">> >>,
        doc |-> "design_docs/graphshell_docs/implementation_strategy/2026-02-23_udc_semantic_tagging_plan.md"],
       [keywords |-> << <<"a", "c", "c", "e", "s", "s", "i", "b", "i", "l", "i", "t", "y">>,
                        <<"s", "c", "r", "e", "e", "n", ".", "r", "e", "a", "d", "e", "r">>,
                        <<"g", "r", "a", "p", "h", ".", "r", "e", "a", "d", "e", "r">>,
                        <<"a", "1", "1", "y">> >>,
        doc |-> "design_docs/graphshell_docs/implementation_strategy/2026-02-24_spatial_accessibility_plan.md"],
       [keywords |-> << <<"e", "x", "p", "o", "r", "t">>,
                        <<"h", "t", "m", "l">>,
                        <<"i", "n", "t", "e", "r", "a", "c", "t", "i", "v", "e">>,
                        <<"a", "r", "t", "i", "f", "a", "c", "t">> >>,
        doc |-> "design_docs/graphshell_docs/implementation_strategy/2026-02-25_interactive_html_export_plan.md"],
       [keywords |-> << <<"v", "i", "e", "w", "p", "o", "r", "t">>,
                        <<"c", "u", "l", "l", "i", "n", "g">>,
                        <<"l", "o", "d">>,
                        <<"z", "o", "o", "m">>,
                        <<"l", "a", "b", "e", "l">> >>,
        doc |-> "design_docs/graphshell_docs/implementation_strategy/2026-02-24_performance_tuning_plan.md"],
       [keywords |-> << <<"v", "e", "r", "s", "e">>,
                        <<"s", "y", "n", "c">>,
                        <<"p", "e", "e", "r">>,
                        <<"i", "d", "e", "n", "t", "i", "t", "y">>,
                        <<"t", "r", "u", "s", "t">> >>,
        doc |-> "design_docs/verse_docs/implementation_strategy/2026-02-18_verse_integration_plan.md"],
       [keywords |-> << <<"s", "e", "t", "t", "i", "n", "g", "s">>,
                        <<"c", "o", "n", "f", "i", "g">>,
                        <<"p", "r", "o", "f", "i", "l", "e">> >>,
        doc |-> "design_docs/graphshell_docs/implementation_strategy/2026-02-20_settings_architecture_plan.md"],
       [keywords |-> << <<"b", "a", "c", "k", "l", "o", "g">>,
                        <<"t", "i", "c", "k", "e", "t">>,
                        <<"s", "t", "u", "b">> >>,
        doc |-> "design_docs/graphshell_docs/implementation_strategy/2026-02-25_backlog_ticket_stubs.md"]
    >>

LowerCase ==
    [A |-> "a", B |-> "b", C |-> "c", D |-> "d", E |-> "e", F |-> "f", G |-> "g",
     H |-> "h", I |-> "i", J |-> "j", K |-> "k", L |-> "l", M |-> "m", N |-> "n",
     O |-> "o", P |-> "p", Q |-> "q", R |-> "r", S |-> "s", T |-> "t", U |-> "u",
     V |-> "v", W |-> "w", X |-> "x", Y |-> "y", Z |-> "z"]

\* str.lower(), character by character.
lower(t) == [i \in 1..Len(t) |-> IF t[i] \in DOMAIN LowerCase THEN LowerCase[t[i]] ELSE t[i]]

\* The characters the regex class \w accepts; \W accepts every other one.
WordChars ==
    {"a", "b", "c", "d", "e", "f", "g", "h", "i", "j", "k", "l", "m", "n", "o", "p", "q",
     "r", "s", "t", "u", "v", "w", "x", "y", "z",
     "A", "B", "C", "D", "E", "F", "G", "H", "I", "J", "K", "L", "M", "N", "O", "P", "Q",
     "R", "S", "T", "U", "V", "W", "X", "Y", "Z",
     "0", "1", "2", "3", "4", "5", "6", "7", "8", "9", "_"}

\* kw.replace(".", r"\W*"): the keyword as a regex, one token per element.
to_regex(kw) == [i \in 1..Len(kw) |-> IF kw[i] = "." THEN "\\W*" ELSE kw[i]]

\* Whether the regex tokens from position i on match the text at position j.
\* \W* takes any number k >= 0 of non-word characters (backtracking tries
\* them all); any other token is a literal character.
RECURSIVE match_here(_, _, _, _)
match_here(regex, i, t, j) ==
    IF i > Len(regex) THEN TRUE
    ELSE IF regex[i] = "\\W*"
    THEN \E k \in 0..(Len(t) - j + 1) :
            /\ \A m \in j..(j + k - 1) : t[m] \notin WordChars
            /\ match_here(regex, i + 1, t, j + k)
    ELSE /\ j <= Len(t)
         /\ t[j] = regex[i]
         /\ match_here(regex, i + 1, t, j + 1)

\* re.search(regex, t): a match starting anywhere in the text.
re_search(regex, t) == \E j \in 1..(Len(t) + 1) : match_here(regex, 1, t, j)

\* Line 251: any(re.search(kw.replace(".", r"\W*"), text_lower) for kw in keywords)
any_keyword(keywords, text_lower) ==
    \E n \in 1..Len(keywords) : re_search(to_regex(keywords[n]), text_lower)

Elements(seq) == {seq[i] : i \in 1..Len(seq)}

\* Bug variant of the loop: documents are appended without the exists() test.
RECURSIVE scan_rules_no_exists(_, _, _)
scan_rules_no_exists(i, sel, text_lower) ==
    IF i > Len(KEYWORD_DOC_MAP) THEN sel
    ELSE LET rule == KEYWORD_DOC_MAP[i]
             hit == /\ any_keyword(rule.keywords, text_lower)
                    /\ rule.doc \notin Elements(sel)
         IN  scan_rules_no_exists(i + 1, IF hit THEN Append(sel, rule.doc) ELSE sel, text_lower)

\* The for-loop of select_docs from rule i on, with `sel` selected so far.
RECURSIVE scan_rules(_, _, _)
scan_rules(i, sel, text_lower) ==
    IF i > Len(KEYWORD_DOC_MAP) THEN sel
    ELSE LET rule == KEYWORD_DOC_MAP[i]
             hit == /\ any_keyword(rule.keywords, text_lower)
                    /\ rule.doc \notin Elements(sel)
                    /\ rule.doc \in on_disk
         IN  scan_rules(i + 1, IF hit THEN Append(sel, rule.doc) ELSE sel, text_lower)

select_docs(t) == scan_rules(1, ALWAYS_INCLUDE_DOCS, lower(t))

\* --- select_docs as a function of the text and of the files present ---

Words ==
    { <<>>,
      <<"m", "u", "l", "t", "i">>,
      <<"v", "i", "e", "w">>,
      <<"M", "u", "l", "t", "i">>,
      <<"w", "e", "b", "v", "i", "e", "w">> }

\* What may stand between two words: nothing, one separator, or a run of two.
Separators ==
    { <<>>, <<"-">>, <<"_">>, <<" ">>, <<" ", " ">> }

RECURSIVE Texts(_)
Texts(n) ==
    IF n = 1 THEN Words
    ELSE {t \o sep \o w : t \in Texts(n - 1), sep \in Separators, w \in Words}

RuleDocs == {KEYWORD_DOC_MAP[i].doc : i \in 1..Len(KEYWORD_DOC_MAP)}
AllDocs == Elements(ALWAYS_INCLUDE_DOCS) \cup RuleDocs

DiskInputs ==
    { AllDocs,
      AllDocs \ {KEYWORD_DOC_MAP[9].doc, ALWAYS_INCLUDE_DOCS[1]} }

AllKeywords ==
    UNION {Elements(KEYWORD_DOC_MAP[i].keywords) : i \in 1..Len(KEYWORD_DOC_MAP)}

\* The keywords written with the wildcard token.
WildcardKeywords == {kw \in AllKeywords : "." \in Elements(kw)}

InitDocs ==
    /\ NoRun
    /\ comments = [t \in Targets |-> <<>>]
    /\ commits = [t \in PRs |-> <<>>]
    /\ files = [t \in PRs |-> <<>>]
    /\ labeled = [t \in Targets |-> FALSE]
    /\ now = 0
    /\ FORCE_REVIEW = FALSE
    /\ REVIEW_TARGETS = [well_formed |-> TRUE, items |-> <<>>]
    /\ REVIEW_MODE = "scan"
    /\ call = NoCall
    /\ text \in Texts(MaxWords)
    /\ on_disk \in DiskInputs
    /\ selected = <<>>
    /\ searched = NoSearch
    /\ corpus = <<>>
    /\ loaded = <<>>

CallSelectDocs ==
    /\ selected' = select_docs(text)
    /\ UNCHANGED <<server, env, run, history, call, text, on_disk, searched, corpus, loaded>>

\* One evaluation of the test of line 251 for a single keyword.
CallSearch ==
    \E kw \in WildcardKeywords :
        /\ searched' = [kw |-> kw, hit |-> re_search(to_regex(kw), lower(text))]
        /\ UNCHANGED <<server, env, run, history, call, text, on_disk, selected, corpus, loaded>>

NextDocs == CallSelectDocs \/ CallSearch

SpecDocs == InitDocs /\ [][NextDocs]_vars

\* ---------------------------------------------------------------------------
\* Design doc loading: read_doc and load_docs.  A text is the sequence of its
\* lines, each with its content and the terminator that ends it ("" for a last
\* line that has none).
\* ---------------------------------------------------------------------------

\* if len(lines) > 150 ... lines[:150] ... len(lines) - 150
MaxDocLines == 150

Line(kind, n, end) == [kind |-> kind, n |-> n, end |-> end]

\* return f"(file not found: {path})" when the path does not exist.
read_doc(path) ==
    IF path \in on_disk THEN corpus[path]
    ELSE <<Line("not_found", 0, "")>>

\* str.splitlines(): the lines without their terminators.
splitlines(content) == [i \in 1..Len(content) |-> [kind |-> content[i].kind, n |-> content[i].n]]

\* "\n".join(lines): a newline between consecutive lines, none after the last.
join(lines) ==
    [i \in 1..Len(lines) |->
        Line(lines[i].kind, lines[i].n, IF i < Len(lines) THEN "\n" ELSE "")]

\* content + f"\n\n... ({k} more lines — read full file if needed)": the first
\* newline ends the last line of content, the second makes an empty line, the
\* note is the last line.
plus_note(content, k) ==
    (IF content = <<>> THEN <<Line("blank", 0, "\n")>>
     ELSE [content EXCEPT ![Len(content)].end = "\n"])
        \o <<Line("blank", 0, "\n"), Line("note", k, "")>>

\* Bug variant: the cap is applied from 150 lines on instead of above 150.
truncate_from_cap(content) ==
    LET lines == splitlines(content)
    IN  IF Len(lines) >= MaxDocLines
        THEN plus_note(join(SubSeq(lines, 1, MaxDocLines)), Len(lines) - MaxDocLines)
        ELSE content

\* Lines 262-264 of load_docs, for one document.
truncate(content) ==
    LET lines == splitlines(content)
    IN  IF Len(lines) > MaxDocLines
        THEN plus_note(join(SubSeq(lines, 1, MaxDocLines)), Len(lines) - MaxDocLines)
        ELSE content

\* parts.append(f"### {p}\n\n{content}") for each path; the parts are then
\* joined by a rule line, kept here as the sequence of parts.
load_docs(paths) ==
    [i \in 1..Len(paths) |-> [path |-> paths[i], content |-> truncate(read_doc(paths[i]))]]

\* --- load_docs as a function of the files' contents ---

\* A file of n lines numbered 1..n, every line ended by `eol`, the last one
\* only when the file ends with a terminator.
FileText(n, eol, final_eol) ==
    [i \in 1..n |-> Line("line", i, IF i < n \/ final_eol THEN eol ELSE "")]

DocLengths == {0, 1, MaxDocLines - 1, MaxDocLines, MaxDocLines + 1, 400}

PathLists ==
    { ALWAYS_INCLUDE_DOCS,
      ALWAYS_INCLUDE_DOCS \o <<KEYWORD_DOC_MAP[3].doc, KEYWORD_DOC_MAP[7].doc>>,
      <<KEYWORD_DOC_MAP[8].doc>> }

InitLoad ==
    /\ NoRun
    /\ comments = [t \in Targets |-> <<>>]
    /\ commits = [t \in PRs |-> <<>>]
    /\ files = [t \in PRs |-> <<>>]
    /\ labeled = [t \in Targets |-> FALSE]
    /\ now = 0
    /\ FORCE_REVIEW = FALSE
    /\ REVIEW_TARGETS = [well_formed |-> TRUE, items |-> <<>>]
    /\ REVIEW_MODE = "scan"
    /\ call = NoCall
    /\ text = <<>>
    /\ searched = NoSearch
    /\ on_disk \in DiskInputs
    /\ selected \in PathLists
    /\ \E n \in DocLengths, m \in {2, 400}, eol \in {"\n", "\r\n"}, final_eol \in BOOLEAN :
          corpus = [d \in AllDocs |->
                       FileText(IF d \in Elements(ALWAYS_INCLUDE_DOCS) THEN n ELSE m,
                                eol, final_eol)]
    /\ loaded = <<>>

\* docs = load_docs(doc_paths), as review_pr and review_issue call it.
CallLoadDocs ==
    /\ loaded' = load_docs(selected)
    /\ UNCHANGED <<server, env, run, history, call, text, on_disk, selected, searched, corpus>>

NextLoad == CallLoadDocs

SpecLoad == InitLoad /\ [][NextLoad]_vars

\* ---------------------------------------------------------------------------
\* Entry point: main(), one invocation per element of Runs.  The required
\* credentials and GITHUB_REPOSITORY are taken as set (otherwise main() exits
\* before its first request).  An invocation moves at its requests: the oracle
\* for the current candidate, the review of it, the listing of labeled issues.
\* ---------------------------------------------------------------------------

\* json.loads(raw_targets): the list written in the text, or JSONDecodeError.
json_loads(raw) ==
    IF raw.well_formed THEN [ok |-> TRUE, value |-> raw.items]
    ELSE [ok |-> FALSE, value |-> <<>>]

\* try: targets = json.loads(raw_targets)  except JSONDecodeError: targets = []
parse_targets(raw) ==
    LET r == json_loads(raw) IN IF r.ok THEN r.value ELSE <<>>

\* The open items are listed newest first; the page loop of the two listing
\* functions runs until a short page, so every labeled item is returned once.
RECURSIVE Listing(_, _)
Listing(kind, S) ==
    IF S = {} THEN <<>>
    ELSE LET m == CHOOSE x \in S : \A y \in S : y <= x
         IN  <<[kind |-> kind, n |-> m]>> \o Listing(kind, S \ {m})

list_labeled_prs == Listing("pr", {n \in PRs : labeled[n]})

list_labeled_issues == Listing("issue", {n \in Issues : labeled[n]})

\* if not review.startswith(REVIEW_MARKER): review = REVIEW_MARKER + "\n" + review
\* Argument and result: whether the text carries the marker.
ensure_marker(starts_with_marker) ==
    IF ~starts_with_marker THEN TRUE ELSE starts_with_marker

\* post_comment(n, body): a new comment at the end of the item's list, stamped
\* by the server.
post_comment(n, has_marker) ==
    [comments EXCEPT ![n] = Append(@, [marker |-> has_marker, updated_at |-> now])]

\* Invocations run in immediate succession: one starts when the previous one
\* has printed its count.
InSuccession(p) == \A q \in Runs : ((q < p) => (pc[q] = "done")) /\ ((q > p) => (pc[q] = "idle"))

\* Lines 475-484 and 500-503: parse REVIEW_TARGETS, reset the counter, choose
\* between the explicit list and the scan.
Start(p) ==
    /\ pc[p] = "idle"
    /\ LET ts == parse_targets(REVIEW_TARGETS)
       IN  IF ts # <<>>
           THEN /\ phase' = [phase EXCEPT ![p] = "explicit"]
                /\ targets' = [targets EXCEPT ![p] = ts]
           ELSE /\ phase' = [phase EXCEPT ![p] = "scan_prs"]
                /\ targets' = [targets EXCEPT ![p] = list_labeled_prs]
    /\ idx' = [idx EXCEPT ![p] = 1]
    /\ reviewed' = [reviewed EXCEPT ![p] = 0]
    /\ pc' = [pc EXCEPT ![p] = "loop"]
    /\ hadMarker' = IF \A q \in Runs : pc[q] = "idle"
                    THEN [t \in Targets |-> \E i \in 1..Len(comments[t]) : comments[t][i].marker]
                    ELSE hadMarker
    /\ UNCHANGED <<server, env, reported, posted, seen, changed, edits, failed_on, call, docs>>

\* An invocation of the run-twice scenario: started once its predecessor is over.
Begin(p) == InSuccession(p) /\ Start(p)

\* An invocation started by a trigger of its own, whatever the others are doing.
Launch(p) == Start(p)

\* The loop body up to the decision: should_review_pr / should_review_issue
\* for the current candidate; a skip moves on to the next candidate.
Evaluate(p) ==
    /\ pc[p] = "loop"
    /\ idx[p] <= Len(targets[p])
    /\ LET t == targets[p][idx[p]]
           needed == IF t.kind = "pr" THEN should_review_pr(t.n, FORCE_REVIEW)
                     ELSE IF t.kind = "issue" THEN should_review_issue(t.n, FORCE_REVIEW)
                     ELSE FALSE
       IN  /\ seen' = IF t.kind \in {"pr", "issue"}
                      THEN [seen EXCEPT ![p] = @ \cup {t.n}] ELSE seen
           /\ IF needed
              THEN /\ pc' = [pc EXCEPT ![p] = "review"]
                   /\ idx' = idx
              ELSE /\ pc' = pc
                   /\ idx' = [idx EXCEPT ![p] = @ + 1]
    /\ UNCHANGED <<server, env, phase, targets, reviewed, reported,
                   posted, hadMarker, changed, edits, failed_on, call, docs>>

\* Bug variant: the comment is posted and the counter is left alone.
Review_uncounted(p) ==
    /\ pc[p] = "review"
    /\ LET t == targets[p][idx[p]]
       IN  /\ \E starts_with_marker \in BOOLEAN :
                 comments' = post_comment(t.n, ensure_marker(starts_with_marker))
           /\ posted' = [posted EXCEPT ![p][t.n] = @ + 1]
    /\ reviewed' = reviewed
    /\ idx' = [idx EXCEPT ![p] = @ + 1]
    /\ pc' = [pc EXCEPT ![p] = "loop"]
    /\ UNCHANGED <<commits, files, labeled, now, env, phase, targets, reported,
                   seen, hadMarker, changed, edits, failed_on, call, docs>>

\* review_pr(n) / review_issue(n) followed by reviewed += 1: the generated
\* text, with the marker put in front when it does not start with it, is
\* posted as a new comment.
Review(p) ==
    /\ pc[p] = "review"
    /\ LET t == targets[p][idx[p]]
       IN  /\ \E starts_with_marker \in BOOLEAN :
                 comments' = post_comment(t.n, ensure_marker(starts_with_marker))
           /\ posted' = [posted EXCEPT ![p][t.n] = @ + 1]
    /\ reviewed' = [reviewed EXCEPT ![p] = @ + 1]
    /\ idx' = [idx EXCEPT ![p] = @ + 1]
    /\ pc' = [pc EXCEPT ![p] = "loop"]
    /\ UNCHANGED <<commits, files, labeled, now, env, phase, targets, reported,
                   seen, hadMarker, changed, edits, failed_on, call, docs>>

\* Line 510: the PR loop of the scan is over, list_labeled_issues() is called.
ListIssues(p) ==
    /\ pc[p] = "loop"
    /\ idx[p] > Len(targets[p])
    /\ phase[p] = "scan_prs"
    /\ phase' = [phase EXCEPT ![p] = "scan_issues"]
    /\ targets' = [targets EXCEPT ![p] = list_labeled_issues]
    /\ idx' = [idx EXCEPT ![p] = 1]
    /\ UNCHANGED <<server, env, pc, reviewed, reported, history, call, docs>>

\* Line 518: print(f"Done. {reviewed} review(s) posted.")
Finish(p) ==
    /\ pc[p] = "loop"
    /\ idx[p] > Len(targets[p])
    /\ phase[p] \in {"explicit", "scan_issues"}
    /\ reported' = [reported EXCEPT ![p] = reviewed[p]]
    /\ pc' = [pc EXCEPT ![p] = "done"]
    /\ UNCHANGED <<server, env, phase, targets, idx, reviewed, history, call, docs>>

\* Bug variant: the failure is caught around the candidate and the loop goes
\* on with the next one.
Fail_isolated(p) ==
    /\ \/ /\ pc[p] = "loop"
          /\ idx[p] <= Len(targets[p])
          /\ targets[p][idx[p]].kind \in {"pr", "issue"}
          /\ ~FORCE_REVIEW
          /\ failed_on' = [failed_on EXCEPT ![p] = <<targets[p][idx[p]]>>]
       \/ /\ pc[p] = "review"
          /\ failed_on' = [failed_on EXCEPT ![p] = <<targets[p][idx[p]]>>]
       \/ /\ pc[p] = "loop"
          /\ \/ phase[p] = "scan_prs" /\ idx[p] > Len(targets[p])
             \/ phase[p] = "scan_prs" /\ idx[p] = 1 /\ seen[p] = {}
          /\ failed_on' = [failed_on EXCEPT ![p] = <<[kind |-> "listing", n |-> 0]>>]
    /\ pc' = [pc EXCEPT ![p] = "loop"]
    /\ idx' = [idx EXCEPT ![p] = @ + 1]
    /\ UNCHANGED <<server, env, phase, targets, reviewed, reported,
                   posted, seen, hadMarker, changed, edits, call, docs>>

\* r.raise_for_status() in gh_get / gh_post, or an error raised by the
\* generation call: nothing in main() catches it, the process ends there.
\* The requests that can raise: the oracle's fetches for the current candidate
\* (none are made when force is set), any request of review_pr / review_issue
\* up to and including the post (a refused post creates no comment), and the
\* listing requests of the scan.
Fail(p) ==
    /\ \/ /\ pc[p] = "loop"
          /\ idx[p] <= Len(targets[p])
          /\ targets[p][idx[p]].kind \in {"pr", "issue"}
          /\ ~FORCE_REVIEW
          /\ failed_on' = [failed_on EXCEPT ![p] = <<targets[p][idx[p]]>>]
       \/ /\ pc[p] = "review"
          /\ failed_on' = [failed_on EXCEPT ![p] = <<targets[p][idx[p]]>>]
       \/ /\ pc[p] = "loop"
          /\ \/ phase[p] = "scan_prs" /\ idx[p] > Len(targets[p])
             \/ phase[p] = "scan_prs" /\ idx[p] = 1 /\ seen[p] = {}
          /\ failed_on' = [failed_on EXCEPT ![p] = <<[kind |-> "listing", n |-> 0]>>]
    /\ pc' = [pc EXCEPT ![p] = "failed"]
    /\ UNCHANGED <<server, env, phase, targets, idx, reviewed, reported,
                   posted, seen, hadMarker, changed, edits, call, docs>>

\* --- what others do to the items meanwhile ---

\* Positions of the marker-bearing comments in a comment list.
MarkerPositions(cs) == {i \in 1..Len(cs) : cs[i].marker}

\* A change by someone else happens at the current instant or one later.
Touch(n, dt) ==
    /\ edits < MaxEdits
    /\ now + dt <= MaxTime
    /\ edits' = edits + 1
    /\ now' = now + dt
    /\ changed' = IF \E q \in Runs : pc[q] # "idle"
                  THEN [changed EXCEPT ![n] = TRUE] ELSE changed

PushCommit(n) ==
    /\ \E dt \in {0, 1} :
          /\ Touch(n, dt)
          /\ commits' = [commits EXCEPT ![n] = Append(@, now + dt)]
    /\ UNCHANGED <<comments, files, labeled, env, run, posted, seen, hadMarker, failed_on, call, docs>>

\* Editing a comment sets its updated_at; its place in the list stays.  The
\* comment edited is the earliest automated review of the item.
EditComment(n) ==
    /\ \E dt \in {0, 1}, i \in {j \in MarkerPositions(comments[n]) :
                                   \A k \in MarkerPositions(comments[n]) : j <= k} :
          /\ Touch(n, dt)
          /\ comments' = [comments EXCEPT ![n][i].updated_at = now + dt]
    /\ UNCHANGED <<commits, files, labeled, env, run, posted, seen, hadMarker, failed_on, call, docs>>

Tag(kind, n) == [kind |-> kind, n |-> n]

TargetLists ==
    { <<>>, <<Tag("pr", 1)>>, <<Tag("issue", 2), Tag("pr", 1)>>,
      <<Tag("pr", 1), Tag("pr", 1)>>, <<Tag("discussion", 1), Tag("issue", 2)>> }

\* REVIEW_TARGETS as a JSON list of tags, or as text json.loads rejects
\* (such as the same list with its closing bracket missing).
RawTargetInputs ==
    {[well_formed |-> TRUE, items |-> l] : l \in TargetLists}
        \cup {[well_formed |-> FALSE, items |-> <<Tag("pr", 1)>>]}

Reviewed0 == [marker |-> TRUE, updated_at |-> 0]

Init ==
    /\ NoRun
    /\ NoDocs
    /\ now = 0
    /\ comments \in [Targets -> {<<>>, <<Reviewed0>>, Pad(PerPage, Plain)}]
    /\ \A t \in Issues : Len(comments[t]) < PerPage
    /\ commits \in [PRs -> {<<>>, <<0>>}]
    /\ files \in [PRs -> {<<>>, <<"src/lib.rs">>}]
    /\ FORCE_REVIEW \in BOOLEAN
    /\ REVIEW_TARGETS \in RawTargetInputs
    /\ REVIEW_MODE \in {"scan", "explicit"}
    /\ REVIEW_MODE = "explicit" <=> REVIEW_TARGETS.items # <<>>
    /\ labeled \in [Targets -> BOOLEAN]
    /\ \E t \in Targets : labeled[t]
    /\ (parse_targets(REVIEW_TARGETS) # <<>>) => (\A t \in Targets : labeled[t])
    /\ call = NoCall

Next ==
    \/ \E p \in Runs : Begin(p)
    \/ \E p \in Runs : Evaluate(p)
    \/ \E p \in Runs : Review(p)
    \/ \E p \in Runs : ListIssues(p)
    \/ \E p \in Runs : Finish(p)
    \/ \E p \in Runs : Fail(p)
    \/ \E n \in PRs : PushCommit(n)
    \/ \E n \in Targets : EditComment(n)

Spec == Init /\ [][Next]_vars

\* Two workflow triggers overlapping: the invocations start independently and
\* their requests interleave.
NextConcurrent ==
    \/ \E p \in Runs : Launch(p)
    \/ \E p \in Runs : Evaluate(p)
    \/ \E p \in Runs : Review(p)
    \/ \E p \in Runs : ListIssues(p)
    \/ \E p \in Runs : Finish(p)
    \/ \E p \in Runs : Fail(p)
    \/ \E n \in PRs : PushCommit(n)
    \/ \E n \in Targets : EditComment(n)

SpecConcurrent == Init /\ [][NextConcurrent]_vars

\* ---------------------------------------------------------------------------
\* What the claims speak of: the item's complete collections
\* ---------------------------------------------------------------------------

IsOracleCall == call.fn \in {"should_review_pr", "should_review_issue"}

MarkerExists(n) == MarkerPositions(comments[n]) # {}

\* updatedAt of the marker-bearing comment with the latest updatedAt.
LastAutomatedReviewTime(cs) ==
    LET times == {cs[i].updated_at : i \in MarkerPositions(cs)}
    IN  CHOOSE t \in times : \A u \in times : u <= t

\* Latest timestamp among all commits of the PR, None when none is dated.
LatestCommitTime(n) ==
    LET times == {commits[n][i] : i \in {j \in 1..Len(commits[n]) : commits[n][j] # NoDate}}
    IN  IF times = {} THEN None
        ELSE CHOOSE t \in times : \A u \in times : u <= t

\* C2: for a PR with the force flag unset and at least one changed file,
\* should_review_pr returns true exactly when no marker-bearing comment exists
\* or a latest commit timestamp exists and is strictly later than the last
\* automated review's updatedAt.
C2_PrNeedsReviewIffMoved ==
    (call.fn = "should_review_pr" /\ ~call.force /\ files[call.n] # <<>>)
        => (call.verdict <=>
               \/ ~MarkerExists(call.n)
               \/ /\ LatestCommitTime(call.n) # None
                  /\ LatestCommitTime(call.n) > LastAutomatedReviewTime(comments[call.n]))

\* C3: whatever the order of the comments in the list handed to it,
\* get_last_claude_review returns the marker-bearing comment whose updatedAt
\* is the maximum among the marker-bearing comments.
C3_LastReviewIsLatestUpdated ==
    LET cs == get_issue_comments(call.n)
    IN  (call.fn = "get_last_claude_review" /\ MarkerPositions(cs) # {})
            => /\ call.found \in MarkerPositions(cs)
               /\ cs[call.found].updated_at = LastAutomatedReviewTime(cs)

\* C4: with the force flag set, should_review_pr and should_review_issue
\* return true whatever the comments, changed files and commits are.
C4_ForceAlwaysReviews ==
    (IsOracleCall /\ call.force) => call.verdict

\* C4 witness: a forced call on an issue that already carries a marker-bearing
\* comment answered true.
C4_Witness ==
    /\ call.fn = "should_review_issue" /\ call.force /\ call.verdict
    /\ get_last_claude_review(get_issue_comments(call.n)) # None

\* C5: with the force flag unset, a PR with no changed files is never due for
\* review, also when it carries no marker-bearing comment.
C5_EmptyDiffNeverReviewed ==
    (call.fn = "should_review_pr" /\ ~call.force /\ files[call.n] = <<>>)
        => ~call.verdict

\* C5 witness: an unforced call on a never-reviewed PR that has commits but no
\* changed files answered false.
C5_Witness ==
    /\ call.fn = "should_review_pr" /\ ~call.force /\ ~call.verdict
    /\ files[call.n] = <<>> /\ ~MarkerExists(call.n)
    /\ LatestCommitTime(call.n) # None

\* C6: with the force flag unset, should_review_issue returns true exactly
\* when no marker-bearing comment exists among the issue's comments.
C6_IssueNeedsReviewIffNoMarker ==
    (call.fn = "should_review_issue" /\ ~call.force)
        => (call.verdict <=> ~MarkerExists(call.n))

\* The oracle's rules applied to the complete collections, as they are after
\* following pagination to exhaustion.
DecisionOverCompleteLists(fn, n, force) ==
    LET last_review == get_last_claude_review(comments[n])
    IN  IF force THEN TRUE
        ELSE IF fn = "should_review_issue" THEN last_review = None
        ELSE IF files[n] = <<>> THEN FALSE
        ELSE IF last_review = None THEN TRUE
        ELSE /\ LatestCommitTime(n) # None
             /\ LatestCommitTime(n) > comments[n][last_review].updated_at

\* C7: the oracle's decision is the one computed over the item's complete
\* comment, commit and changed-file collections, however many pages they fill.
C7_DecisionOverCompleteLists ==
    IsOracleCall => call.verdict = DecisionOverCompleteLists(call.fn, call.n, call.force)

\* ---------------------------------------------------------------------------
\* Claims about main()
\* ---------------------------------------------------------------------------

NothingChanged == \A t \in Targets : ~changed[t]

\* C1: two invocations in immediate succession with nothing else touching the
\* items: every item the first one considered that carried no marker-bearing
\* comment before it receives one comment from the first invocation and none
\* from the second.  Stated for the items the oracle's first two rules leave
\* open: force flag unset, and for a PR at least one changed file.
C1_SecondRunPostsNothing ==
    \A t \in Targets :
        ( /\ pc[1] = "done" /\ pc[2] = "done" /\ NothingChanged
          /\ ~FORCE_REVIEW
          /\ t \in seen[1] /\ ~hadMarker[t]
          /\ (t \in PRs => files[t] # <<>>) )
        => (posted[1][t] = 1 /\ posted[2][t] = 0)

\* C8: with a REVIEW_TARGETS text that json.loads rejects, an invocation
\* evaluates no candidate, posts no comment and reports a count of zero.
\* Stated for REVIEW_MODE = "explicit", the mode in which the explicit-target
\* input is the only source of candidates.
C8_MalformedTargetsNoOp ==
    (REVIEW_MODE = "explicit" /\ ~REVIEW_TARGETS.well_formed)
        => \A p \in Runs :
              /\ seen[p] = {}
              /\ \A t \in Targets : posted[p][t] = 0
              /\ (pc[p] = "done" => reported[p] = 0)

\* ---------------------------------------------------------------------------
\* Claims about select_docs
\* ---------------------------------------------------------------------------

\* Rule i fires on the text: one of its keywords is found in it.
Fires(i) == any_keyword(KEYWORD_DOC_MAP[i].keywords, lower(text))

\* The first rule, in declaration order, that targets document d.
FirstRuleOf(d) ==
    CHOOSE i \in 1..Len(KEYWORD_DOC_MAP) :
        /\ KEYWORD_DOC_MAP[i].doc = d
        /\ \A j \in 1..(i - 1) : KEYWORD_DOC_MAP[j].doc # d

DropFirst(n, seq) == SubSeq(seq, n + 1, Len(seq))

\* C9: select_docs returns the always-include list in its declared order,
\* followed by the documents of the firing rules that exist on disk, in rule
\* declaration order, no path twice; for the empty text it returns exactly
\* the always-include list.
C9_SelectionShape ==
    (selected # <<>>) =>
        LET n == Len(ALWAYS_INCLUDE_DOCS)
            rest == DropFirst(n, selected)
        IN  /\ Len(selected) >= n
            /\ SubSeq(selected, 1, n) = ALWAYS_INCLUDE_DOCS
            /\ \A a, b \in 1..Len(selected) : (a # b) => (selected[a] # selected[b])
            /\ Elements(rest) =
                   {KEYWORD_DOC_MAP[i].doc : i \in {j \in 1..Len(KEYWORD_DOC_MAP) :
                        Fires(j) /\ KEYWORD_DOC_MAP[j].doc \in on_disk}}
                     \ Elements(ALWAYS_INCLUDE_DOCS)
            /\ \A a, b \in 1..Len(rest) :
                   (a < b) => (FirstRuleOf(rest[a]) < FirstRuleOf(rest[b]))
            /\ (text = <<>>) => (selected = ALWAYS_INCLUDE_DOCS)

\* C9 witness: a text on which two rules fire whose documents are selected in
\* rule order, while a third firing rule's document is absent from disk and
\* left out.
C9_Witness ==
    /\ selected # <<>>
    /\ Len(selected) >= Len(ALWAYS_INCLUDE_DOCS) + 2
    /\ \E i \in 1..Len(KEYWORD_DOC_MAP) :
          Fires(i) /\ KEYWORD_DOC_MAP[i].doc \notin on_disk

MultiDotView == <<"m", "u", "l", "t", "i", ".", "v", "i", "e", "w">>

\* C10: the keyword "multi.view" is found in "multi-view", "multi_view" and
\* "multi  view", is not found in "multiview", and case does not matter.
C10_WildcardNeedsSeparator ==
    (searched.kw = MultiDotView) =>
        /\ (lower(text) \in { <<"m", "u", "l", "t", "i", "-", "v", "i", "e", "w">>,
                            <<"m", "u", "l", "t", "i", "_", "v", "i", "e", "w">>,
                            <<"m", "u", "l", "t", "i", " ", " ", "v", "i", "e", "w">> })
              => searched.hit
        /\ (lower(text) = <<"m", "u", "l", "t", "i", "v", "i", "e", "w">>) => ~searched.hit

\* ---------------------------------------------------------------------------
\* Claims about load_docs
\* ---------------------------------------------------------------------------

LineTexts(content) == [i \in 1..Len(content) |-> [kind |-> content[i].kind, n |-> content[i].n]]

\* C11: a document of n > 150 lines is loaded as its first 150 lines followed
\* by a note stating that n - 150 lines were omitted; a document of at most
\* 150 lines is loaded unchanged, without a note.
C11_CapAt150Lines ==
    \A i \in 1..Len(loaded) :
        LET original == read_doc(loaded[i].path)
            n == Len(original)
            got == loaded[i].content
        IN  IF n > 150
            THEN /\ Len(got) = 152
                 /\ SubSeq(LineTexts(got), 1, 150) = SubSeq(LineTexts(original), 1, 150)
                 /\ got[151].kind = "blank"
                 /\ got[152].kind = "note" /\ got[152].n = n - 150
            ELSE /\ got = original
                 /\ \A j \in 1..Len(got) : got[j].kind # "note"

\* C11 witness: a 400-line document was loaded with a note of 250 lines, next
\* to a document loaded whole.
C11_Witness ==
    /\ \E i \in 1..Len(loaded) :
          /\ Len(read_doc(loaded[i].path)) = 400
          /\ loaded[i].content[152] = Line("note", 250, "")
    /\ \E i \in 1..Len(loaded) :
          /\ Len(read_doc(loaded[i].path)) \in 1..150
          /\ loaded[i].content = read_doc(loaded[i].path)

\* ---------------------------------------------------------------------------
\* Claims about overlapping invocations, failures and the counter
\* ---------------------------------------------------------------------------

\* Marker-bearing comments on item n.
MarkerCount(n) == Cardinality(MarkerPositions(comments[n]))

\* The only invocation started so far is p.
RunsAlone(p) == pc[p] # "idle" /\ \A q \in Runs \ {p} : pc[q] = "idle"

\* C12: two invocations overlapping on a never-reviewed target can both
\* evaluate the oracle before either posts, and both post; within a single
\* invocation, force unset, an unchanged target that had no marker-bearing
\* comment never comes to carry two of them.
C12_SingleInvocationPostsOnce ==
    \A p \in Runs, t \in Targets :
        (RunsAlone(p) /\ ~FORCE_REVIEW /\ ~hadMarker[t] /\ ~changed[t])
            => MarkerCount(t) <= 1

\* The race of C12, reached under SpecConcurrent: both invocations are past their post
\* on an unchanged, never-reviewed target whose comments fit in one page, so
\* neither decision can have missed a comment that was already there.
C12_BothPosted ==
    \E t \in Targets :
        /\ ~FORCE_REVIEW /\ ~hadMarker[t] /\ ~changed[t]
        /\ Len(comments[t]) <= PerPage
        /\ posted[1][t] = 1 /\ posted[2][t] = 1
        /\ MarkerCount(t) = 2

\* Comments posted by invocation p, over all items.
RECURSIVE SumOver(_, _)
SumOver(f, S) ==
    IF S = {} THEN 0
    ELSE LET x == CHOOSE y \in S : TRUE IN f[x] + SumOver(f, S \ {x})

TotalPosted(p) == SumOver(posted[p], Targets)

\* Comments on the server, over all items.
TotalComments == SumOver([t \in Targets |-> Len(comments[t])], Targets)

C14_CounterCountsComments ==
    [][ /\ SumOver(reviewed', Runs) - SumOver(reviewed, Runs) = TotalComments' - TotalComments
        /\ \A p \in Runs :
          /\ reviewed'[p] >= reviewed[p]
          /\ reviewed'[p] = (TotalPosted(p))'
          /\ (pc[p] = "loop" /\ pc'[p] = "loop" /\ idx'[p] = idx[p] + 1) =>
                (comments' = comments /\ reviewed'[p] = reviewed[p])
          /\ (pc[p] = "review" /\ pc'[p] = "loop") =>
                LET n == targets[p][idx[p]].n
                IN  /\ reviewed'[p] = reviewed[p] + 1
                    /\ Len(comments'[n]) = Len(comments[n]) + 1
                    /\ SubSeq(comments'[n], 1, Len(comments[n])) = comments[n]
                    /\ \A t \in Targets \ {n} : comments'[t] = comments[t]
          /\ (pc'[p] = "done") =>
                (reported'[p] = reviewed'[p] /\ reported'[p] = (TotalPosted(p))') ]_vars

\* A completed invocation that skipped one candidate and reviewed another.
C14_Witness ==
    \E p \in Runs :
        /\ pc[p] = "done"
        /\ Cardinality(seen[p]) = 2
        /\ TotalPosted(p) = 1
        /\ reported[p] = 1

====
